---- MODULE Spec2Model ----
(***************************************************************************)
(* Batched tridiagonal solvers of OMEGA (base/Tridiagonal.h).              *)
(*                                                                         *)
(* Two builds are modelled, as the header selects one backend per build:   *)
(*   Spec     the lane-parallel build: ThomasSolver / ThomasDiffusionSolver*)
(*            one team per group of VecLength systems, rows in order;      *)
(*   SpecPCR  the group-parallel build: PCRSolver / PCRDiffusionSolver,    *)
(*            one unit per row of one system, interleaved arbitrarily and  *)
(*            synchronised by team_barrier().                              *)
(* Real numbers are exact rationals <<numerator, denominator>>; a division *)
(* by zero yields NaN, which every later operation propagates.             *)
(***************************************************************************)
EXTENDS Integers, Sequences, FiniteSets, TLC

VARIABLES
    family,     \* "tri": solve(DL, D, DU, X); "diff": solve(G, H, X)
    NRow,       \* X.extent_int(1)
    NBatch,     \* X.extent_int(0)
    VecLength,  \* lane width of the build
    DL, D, DU,  \* coefficient arrays [I][K] of the general solvers
    G, H,       \* coefficient arrays [I][K] of the diffusion solvers
    X0,         \* the right-hand side as the caller passed it
    XTrue,      \* "tri": the vector x the right-hand side was built from
    X,          \* the in-place right-hand side / solution array [I][K]
    teamsDone,  \* lane-parallel build: league ranks whose call has returned
    staged,     \* lane-parallel build: scratch of the last call after staging
    solved,     \* lane-parallel build: scratch of the last call after solve
    touched,    \* lane-parallel build: system indices I whose X(I, .) was accessed
    pc,         \* group-parallel build: position of each unit (team_rank)
    Lev,        \* group-parallel build: loop variable Lev of each unit
    New,        \* group-parallel build: the locals NewD, NewX, ... of each unit
    Scratch,    \* group-parallel build: team scratch arrays [K]
    nbar,       \* group-parallel build: team_barrier() calls each unit has passed
    snap,       \* group-parallel build: Scratch as it stood at the last barrier
    levels,     \* group-parallel build: reduction levels each unit has written
    strideUsed, \* group-parallel build: Stride each unit used in the final step
    finalW,     \* group-parallel build: <<unit, row>> : unit wrote X(row) in the final step
    finalR      \* group-parallel build: <<unit, row>> : unit read X(row) in the final step

inputs == <<family, NRow, NBatch, VecLength, DL, D, DU, G, H, X0, XTrue>>
thomasVars == <<teamsDone, staged, solved, touched>>
pcrVars == <<pc, Lev, New, Scratch, nbar, snap, levels, strideUsed, finalW, finalR>>
vars == <<inputs, X, thomasVars, pcrVars>>

----------------------------------------------------------------------------
(* Bounds of the model *)

MaxRow == 5
MaxBatch == 3
MaxVecLength == 2

----------------------------------------------------------------------------
(* Real arithmetic, exact *)

\* The operations are functions of their operands: an operand is evaluated
\* once, before the operation is applied.

Abs(n) == IF n < 0 THEN -n ELSE n

GCD[a \in Nat, b \in Nat] == IF b = 0 THEN a ELSE GCD[b, a % b]

NaN == <<0, 0>>

IsNaN(r) == r[2] = 0

Reals == Int \X Int

Rat[n \in Int, d \in Int] ==
    IF d = 0 THEN NaN
    ELSE LET g == GCD[Abs(n), Abs(d)]
             s == IF d < 0 THEN -1 ELSE 1
         IN  <<(s * n) \div g, (s * d) \div g>>

Real(n) == <<n, 1>>

Zero == Real(0)

One == Real(1)

Neg[a \in Reals] == IF IsNaN(a) THEN NaN ELSE <<-a[1], a[2]>>

\* operands are in lowest terms; common factors are cancelled before multiplying
Add[a \in Reals, b \in Reals] ==
    IF IsNaN(a) \/ IsNaN(b) THEN NaN
    ELSE LET g == GCD[Abs(a[2]), Abs(b[2])]
         IN  Rat[a[1] * (b[2] \div g) + b[1] * (a[2] \div g), (a[2] \div g) * b[2]]

Mul[a \in Reals, b \in Reals] ==
    IF IsNaN(a) \/ IsNaN(b) THEN NaN
    ELSE IF a[1] = 0 \/ b[1] = 0 THEN Zero
    ELSE LET g == GCD[Abs(a[1]), Abs(b[2])]
             h == GCD[Abs(b[1]), Abs(a[2])]
         IN  Rat[(a[1] \div g) * (b[1] \div h), (a[2] \div h) * (b[2] \div g)]

Div[a \in Reals, b \in Reals] ==
    IF IsNaN(a) \/ IsNaN(b) \/ b[1] = 0 THEN NaN
    ELSE Mul[a, Rat[b[2], b[1]]]

RNeg(a) == Neg[a]

RAdd(a, b) == Add[a, b]

RSub(a, b) == Add[a, Neg[b]]

RMul(a, b) == Mul[a, b]

RDiv(a, b) == Div[a, b]

----------------------------------------------------------------------------
(* The batches the caller passes *)

Rows == 0 .. NRow - 1

Systems == 0 .. NBatch - 1

Lanes == 0 .. VecLength - 1

BumpAt(K, b) == IF K = b /\ b >= 0 THEN 1 ELSE 0

\* sub-diagonal: sub[0] = lo, one interior entry raised
SubOf(M, lo, b) ==
    [I \in Systems |-> [K \in 0 .. M - 1 |->
        Real(IF K = 0 THEN lo ELSE 1 + BumpAt(K, b))]]

\* super-diagonal / coupling: last entry = hi, one interior entry raised
SuperOf(M, hi, b) ==
    [I \in Systems |-> [K \in 0 .. M - 1 |->
        Real(IF K = M - 1 THEN hi ELSE 1 + BumpAt(K, b))]]

DiagOf(M, base, bd) ==
    [I \in Systems |-> [K \in 0 .. M - 1 |-> Real(base + I + BumpAt(K, bd))]]

VecOf(M, bx) ==
    [I \in Systems |-> [K \in 0 .. M - 1 |-> Real(1 + I + BumpAt(K, bx))]]

\* rhs = A * x for the tridiagonal A of (sub, diag, super)
MatVec(M, sub, diag, super, x) ==
    [I \in DOMAIN x |-> [K \in 0 .. M - 1 |->
        RAdd(RAdd(IF K > 0 THEN RMul(sub[I][K], x[I][K - 1]) ELSE Zero,
                  RMul(diag[I][K], x[I][K])),
             IF K < M - 1 THEN RMul(super[I][K], x[I][K + 1]) ELSE Zero)]]

Empty == <<>>

\* The caller's arrays; Bs, Ds: the rows that may be perturbed (the
\* right-hand side is perturbed in the row the off-diagonals are).
InitInputs(Ns, Ws, Bs, Ds) ==
    /\ NRow \in 1 .. MaxRow
    /\ NBatch \in Ns
    /\ VecLength \in Ws
    /\ family \in {"tri", "diff"}
    /\ \E lo \in {0, 1}, hi \in {0, 1} :
       \E b \in Bs, bd \in Ds :
          /\ b < NRow /\ bd < NRow
          /\ IF family = "tri"
             THEN /\ DL = SubOf(NRow, lo, b)
                  /\ D = DiagOf(NRow, 4, bd)
                  /\ DU = SuperOf(NRow, hi, b)
                  /\ XTrue = VecOf(NRow, b)
                  /\ X0 = MatVec(NRow, DL, D, DU, XTrue)
                  /\ G = Empty /\ H = Empty
             ELSE /\ lo = 0
                  /\ G = SuperOf(NRow, hi, b)
                  /\ H = DiagOf(NRow, 1, bd)
                  /\ X0 = VecOf(NRow, b)
                  /\ DL = Empty /\ D = Empty /\ DU = Empty /\ XTrue = Empty
    /\ X = X0

----------------------------------------------------------------------------
(* ThomasSolver, ThomasDiffusionSolver: the lane-parallel build *)

\* ThomasSolver::makeTeamPolicy: league size
NTeams == (NBatch + VecLength - 1) \div VecLength

\* const int IStart = Member.league_rank() * VecLength, lines 79 and 289
IStartOf(r, w) == r * w

\* if (I < NBatch), lines 86, 105, 192, 210, 296, 313
InBatch(I, n) == I < n

\* the inert system staged in the lanes beyond the batch
PadDL == Zero

\* a padding lane staged with a zero diagonal
PadDZero == Zero

PadD == One

PadDU == Zero

PadX == Zero

PadG == Zero

PadH == One

\* ThomasSolver::solve(Member, DL, D, DU, X), lines 83-98, for a batch of n
\* systems (dl, d, du, rhs) and lane width w
ThomasStage(r, n, w, dl, d, du, rhs) ==
    LET I(iv) == IStartOf(r, w) + iv
    IN  [DL |-> [K \in Rows |-> [iv \in 0 .. w - 1 |->
                   IF InBatch(I(iv), n) THEN dl[I(iv)][K] ELSE PadDL]],
         D  |-> [K \in Rows |-> [iv \in 0 .. w - 1 |->
                   IF InBatch(I(iv), n) THEN d[I(iv)][K] ELSE PadD]],
         DU |-> [K \in Rows |-> [iv \in 0 .. w - 1 |->
                   IF InBatch(I(iv), n) THEN du[I(iv)][K] ELSE PadDU]],
         X  |-> [K \in Rows |-> [iv \in 0 .. w - 1 |->
                   IF InBatch(I(iv), n) THEN rhs[I(iv)][K] ELSE PadX]]]

\* the lanes of a scratch: IVec = 0 .. VecLength - 1
LanesOf(S) == DOMAIN S.X[0]

\* lines 49-55: forward sweep, rows K .. NRow-1
RECURSIVE ThomasForward(_, _)
ThomasForward(S, K) ==
    IF K >= NRow THEN S
    ELSE LET W == [iv \in LanesOf(S) |-> RDiv(S.DL[K][iv], S.D[K - 1][iv])]
         IN  ThomasForward(
                 [S EXCEPT
                    !.D[K] = [iv \in LanesOf(S) |->
                                RSub(S.D[K][iv], RMul(W[iv], S.DU[K - 1][iv]))],
                    !.X[K] = [iv \in LanesOf(S) |->
                                RSub(S.X[K][iv], RMul(W[iv], S.X[K - 1][iv]))]],
                 K + 1)

\* lines 57-59
ThomasLast(S) ==
    [S EXCEPT !.X[NRow - 1] =
        [iv \in LanesOf(S) |-> RDiv(S.X[NRow - 1][iv], S.D[NRow - 1][iv])]]

\* lines 61-68: backward sweep, rows K .. 0
RECURSIVE ThomasBackward(_, _)
ThomasBackward(S, K) ==
    IF K < 0 THEN S
    ELSE ThomasBackward(
             [S EXCEPT !.X[K] = [iv \in LanesOf(S) |->
                 RDiv(RSub(S.X[K][iv], RMul(S.DU[K][iv], S.X[K + 1][iv])),
                      S.D[K][iv])]],
             K - 1)

\* ThomasSolver::solve(Member, Scratch)
ThomasSolveScratch(S) == ThomasBackward(ThomasLast(ThomasForward(S, 1)), NRow - 2)

\* lines 102-109 (and 310-317): write-back of the real lanes into x
WriteBackLanes(r, n, w, S, x) ==
    [I \in DOMAIN x |->
        IF I >= IStartOf(r, w) /\ I < IStartOf(r, w) + w /\ InBatch(I, n)
        THEN [K \in Rows |-> S.X[K][I - IStartOf(r, w)]]
        ELSE x[I]]

\* the X(I, .) a call of league rank r reads (staging) and writes (write-back)
LanesTouched(r, n, w) ==
    {IStartOf(r, w) + iv : iv \in {jv \in 0 .. w - 1 : InBatch(IStartOf(r, w) + jv, n)}}

\* ThomasDiffusionSolver::solve(Member, G, H, X), lines 293-306
ThomasDiffStage(r, n, w, g, h, rhs) ==
    LET I(iv) == IStartOf(r, w) + iv
    IN  [G |-> [K \in Rows |-> [iv \in 0 .. w - 1 |->
                   IF InBatch(I(iv), n) THEN g[I(iv)][K] ELSE PadG]],
         H |-> [K \in Rows |-> [iv \in 0 .. w - 1 |->
                   IF InBatch(I(iv), n) THEN h[I(iv)][K] ELSE PadH]],
         X |-> [K \in Rows |-> [iv \in 0 .. w - 1 |->
                   IF InBatch(I(iv), n) THEN rhs[I(iv)][K] ELSE PadX]],
         Alpha |-> [K \in Rows |-> [iv \in 0 .. w - 1 |-> NaN]]]

\* lines 240-242
ThomasDiffAlpha0(S) == [S EXCEPT !.Alpha[0] = [iv \in LanesOf(S) |-> Zero]]

\* lines 244-252
RECURSIVE ThomasDiffAlpha(_, _)
ThomasDiffAlpha(S, K) ==
    IF K >= NRow THEN S
    ELSE ThomasDiffAlpha(
             [S EXCEPT !.Alpha[K] = [iv \in LanesOf(S) |->
                 RDiv(RMul(S.G[K - 1][iv],
                           RAdd(S.H[K - 1][iv], S.Alpha[K - 1][iv])),
                      RAdd(RAdd(S.H[K - 1][iv], S.Alpha[K - 1][iv]),
                           S.G[K - 1][iv]))]],
             K + 1)

\* lines 254-256
ThomasDiffH0(S) ==
    [S EXCEPT !.H[0] = [iv \in LanesOf(S) |-> RAdd(S.H[0][iv], S.G[0][iv])]]

\* lines 258-267
RECURSIVE ThomasDiffForward(_, _)
ThomasDiffForward(S, K) ==
    IF K >= NRow THEN S
    ELSE LET AddH == [iv \in LanesOf(S) |-> RAdd(S.Alpha[K][iv], S.G[K][iv])]
         IN  ThomasDiffForward(
                 [S EXCEPT
                    !.H[K] = [iv \in LanesOf(S) |-> RAdd(S.H[K][iv], AddH[iv])],
                    !.X[K] = [iv \in LanesOf(S) |->
                        RAdd(S.X[K][iv],
                             RMul(RDiv(S.G[K - 1][iv], S.H[K - 1][iv]),
                                  S.X[K - 1][iv]))]],
                 K + 1)

\* lines 269-271
ThomasDiffLast(S) ==
    [S EXCEPT !.X[NRow - 1] =
        [iv \in LanesOf(S) |-> RDiv(S.X[NRow - 1][iv], S.H[NRow - 1][iv])]]

\* lines 273-279
RECURSIVE ThomasDiffBackward(_, _)
ThomasDiffBackward(S, K) ==
    IF K < 0 THEN S
    ELSE ThomasDiffBackward(
             [S EXCEPT !.X[K] = [iv \in LanesOf(S) |->
                 RDiv(RAdd(S.X[K][iv], RMul(S.G[K][iv], S.X[K + 1][iv])),
                      S.H[K][iv])]],
             K - 1)

\* ThomasDiffusionSolver::solve(Member, Scratch)
ThomasDiffSolveScratch(S) ==
    ThomasDiffBackward(
        ThomasDiffLast(
            ThomasDiffForward(ThomasDiffH0(ThomasDiffAlpha(ThomasDiffAlpha0(S), 1)), 1)),
        NRow - 2)

\* remember the scratch of the call of league rank r
Recorded(f, r, S) ==
    [q \in DOMAIN f \cup {r} |-> IF q = r THEN S ELSE f[q]]

\* One call of ThomasSolver::solve(Member, DL, D, DU, X), league rank r
ThomasSolve(r) ==
    /\ family = "tri"
    /\ r \notin teamsDone
    /\ staged' = Recorded(staged, r, ThomasStage(r, NBatch, VecLength, DL, D, DU, X))
    /\ solved' = Recorded(solved, r, ThomasSolveScratch(staged'[r]))
    /\ X' = WriteBackLanes(r, NBatch, VecLength, solved'[r], X)
    /\ touched' = touched \cup LanesTouched(r, NBatch, VecLength)
    /\ teamsDone' = teamsDone \cup {r}
    /\ UNCHANGED <<inputs, pcrVars>>

\* One call of ThomasDiffusionSolver::solve(Member, G, H, X), league rank r
ThomasDiffSolve(r) ==
    /\ family = "diff"
    /\ r \notin teamsDone
    /\ staged' = Recorded(staged, r, ThomasDiffStage(r, NBatch, VecLength, G, H, X))
    /\ solved' = Recorded(solved, r, ThomasDiffSolveScratch(staged'[r]))
    /\ X' = WriteBackLanes(r, NBatch, VecLength, solved'[r], X)
    /\ touched' = touched \cup LanesTouched(r, NBatch, VecLength)
    /\ teamsDone' = teamsDone \cup {r}
    /\ UNCHANGED <<inputs, pcrVars>>

PcrIdle ==
    /\ pc = Empty /\ Lev = Empty /\ New = Empty /\ Scratch = Empty
    /\ nbar = Empty /\ snap = Empty /\ levels = Empty /\ strideUsed = Empty
    /\ finalW = {} /\ finalR = {}

ThomasIdle ==
    /\ teamsDone = {} /\ staged = Empty /\ solved = Empty /\ touched = {}

\* rows perturbed in the batches tried (-1: none)
BumpS == {-1, 1}

BumpD == {-1, 0}

Init ==
    /\ InitInputs(1 .. MaxBatch, 1 .. MaxVecLength, BumpS, BumpD)
    /\ ThomasIdle
    /\ PcrIdle

Next ==
    \/ \E r \in 0 .. NTeams - 1 : ThomasSolve(r)
    \/ \E r \in 0 .. NTeams - 1 : ThomasDiffSolve(r)

Spec == Init /\ [][Next]_vars

----------------------------------------------------------------------------
(* PCRSolver, PCRDiffusionSolver: the group-parallel build.                *)
(* One team per system, one unit (team_rank K) per row.  The team modelled *)
(* is the one of league rank League.                                       *)

League == 0

Units == Rows

RECURSIVE Pow2(_)
Pow2(n) == IF n <= 0 THEN 1 ELSE 2 * Pow2(n - 1)

RECURSIVE CeilLog2From(_, _)
CeilLog2From(n, L) == IF Pow2(L) >= n THEN L ELSE CeilLog2From(n, L + 1)

\* Kokkos::ceil(Kokkos::log2(n))
CeilLog2(n) == CeilLog2From(n, 0)

NLevels == CeilLog2(NRow)

MinInt32 == -2147483647 - 1

\* The values `1 << n` can take.  A negative shift count is undefined
\* behaviour: the shifters of the supported targets either use the low five
\* bits of the count (1 << 31) or saturate the count (0).
ShiftLeft1(n) == IF n >= 0 THEN {Pow2(n)} ELSE {0, MinInt32}

At(a, k) == IF k \in DOMAIN a THEN a[k] ELSE NaN

\* Team scratch before staging: uninitialised
ScratchInit ==
    [DL |-> [K \in Rows |-> NaN], D |-> [K \in Rows |-> NaN],
     DU |-> [K \in Rows |-> NaN], X |-> [K \in Rows |-> NaN],
     G  |-> [K \in Rows |-> NaN], H |-> [K \in Rows |-> NaN]]

NewInit ==
    [D |-> NaN, X |-> NaN, DL |-> NaN, DU |-> NaN, G |-> NaN, H |-> NaN,
     Alpha |-> NaN, Beta |-> NaN]

AtBarrier(K) == pc[K] \in {"bar_stage", "bar_read", "bar_write", "bar_final"}

\* team_barrier() lets the team pass once every unit of the team has arrived
TeamBarrierArrived == \A K \in Units : AtBarrier(K)

\* a loop that runs one level more
LoopEntryInclusive(lev) == IF lev <= NLevels THEN "read" ELSE "final"

\* for (int Lev = ...; Lev < NLevels; ++Lev), lines 130 and 338
LoopEntry(lev) == IF lev < NLevels THEN "read" ELSE "final"

PcAfterBarrier(K) ==
    CASE pc[K] = "bar_stage" -> LoopEntry(1)
      [] pc[K] = "bar_read"  -> "write"
      [] pc[K] = "bar_write" -> LoopEntry(Lev[K] + 1)
      [] pc[K] = "bar_final" -> "writeback"

LevAfterBarrier(K) ==
    CASE pc[K] = "bar_stage" -> 1
      [] pc[K] = "bar_write" -> Lev[K] + 1
      [] OTHER -> Lev[K]

\* Member.team_barrier(): lines 150, 157, 204, 208 and 364, 370, 417, 421
TeamBarrier ==
    /\ TeamBarrierArrived
    /\ pc' = [K \in Units |-> IF AtBarrier(K) THEN PcAfterBarrier(K) ELSE pc[K]]
    /\ Lev' = [K \in Units |-> IF AtBarrier(K) THEN LevAfterBarrier(K) ELSE Lev[K]]
    /\ nbar' = [K \in Units |-> IF AtBarrier(K) THEN nbar[K] + 1 ELSE nbar[K]]
    /\ snap' = Scratch
    /\ UNCHANGED <<inputs, X, thomasVars, New, Scratch, levels, strideUsed,
                   finalW, finalR>>

\* PCRSolver::solve(Member, DL, D, DU, X), lines 192-202
PCRStage(K) ==
    /\ family = "tri"
    /\ pc[K] = "stage"
    /\ Scratch' =
         [Scratch EXCEPT
            !.DL[K] = IF InBatch(League, NBatch) THEN DL[League][K] ELSE PadDL,
            !.D[K]  = IF InBatch(League, NBatch) THEN D[League][K] ELSE PadD,
            !.DU[K] = IF InBatch(League, NBatch) THEN DU[League][K] ELSE PadDU,
            !.X[K]  = IF InBatch(League, NBatch) THEN X[League][K] ELSE PadX]
    /\ pc' = [pc EXCEPT ![K] = "bar_stage"]
    /\ UNCHANGED <<inputs, X, thomasVars, Lev, New, nbar, snap, levels,
                   strideUsed, finalW, finalR>>

ClampLow(k) == IF k < 0 THEN 0 ELSE k

ClampHigh(k) == IF k >= NRow THEN NRow - 1 ELSE k

\* a reduction that looks at the adjacent rows at every level
HalfStrideOne(lev) == 1

\* const int HalfStride = 1 << (Lev - 1), line 133
HalfStrideOf(lev) == Pow2(lev - 1)

\* lines 132-148: what unit K computes from scratch S at level lev
PCRReduce(S, K, lev) ==
    LET HalfStride == HalfStrideOf(lev)
        Kmh == ClampLow(K - HalfStride)
        Kph == ClampHigh(K + HalfStride)
        alpha == RDiv(RNeg(S.DL[K]), S.D[Kmh])
        gamma == RDiv(RNeg(S.DU[K]), S.D[Kph])
    IN  [NewInit EXCEPT
           !.D  = RAdd(RAdd(S.D[K], RMul(alpha, S.DU[Kmh])), RMul(gamma, S.DL[Kph])),
           !.X  = RAdd(RAdd(S.X[K], RMul(alpha, S.X[Kmh])), RMul(gamma, S.X[Kph])),
           !.DL = RMul(alpha, S.DL[Kmh]),
           !.DU = RMul(gamma, S.DU[Kph]),
           !.Alpha = alpha,
           !.Beta = gamma]

\* a unit that writes its row without waiting for the others' reads
PcAfterReadNoBarrier(K) == "write"

\* after its reads of a level the unit calls team_barrier(), lines 150, 364
PcAfterRead(K) == "bar_read"

PCRRead(K) ==
    /\ family = "tri"
    /\ pc[K] = "read"
    /\ New' = [New EXCEPT ![K] = PCRReduce(Scratch, K, Lev[K])]
    /\ pc' = [pc EXCEPT ![K] = PcAfterRead(K)]
    /\ UNCHANGED <<inputs, X, thomasVars, Lev, Scratch, nbar, snap, levels,
                   strideUsed, finalW, finalR>>

\* row 0 goes on without the barrier the other rows wait at
PcAfterWriteRowZeroSkips(K) == IF K = 0 THEN LoopEntry(Lev[K] + 1) ELSE "bar_write"

\* after the writes of a level the unit calls team_barrier(), lines 157, 370
PcAfterWrite(K) == "bar_write"

\* lines 152-155
PCRWrite(K) ==
    /\ family = "tri"
    /\ pc[K] = "write"
    /\ Scratch' = [Scratch EXCEPT !.D[K] = New[K].D, !.X[K] = New[K].X,
                                  !.DL[K] = New[K].DL, !.DU[K] = New[K].DU]
    /\ levels' = [levels EXCEPT ![K] = @ + 1]
    /\ pc' = [pc EXCEPT ![K] = PcAfterWrite(K)]
    /\ UNCHANGED <<inputs, X, thomasVars, Lev, New, nbar, snap, strideUsed,
                   finalW, finalR>>

\* a final step that looks for a partner above only
HasPartnerUpOnly(K, Stride) == K + Stride < NRow

\* if (K + Stride < NRow || K - Stride >= 0), lines 162 and 375
HasPartner(K, Stride) == K + Stride < NRow \/ K - Stride >= 0

\* if (K < NRow / 2), lines 163 and 376
LowerOfPair(K) == K < NRow \div 2

\* lines 164-172: the 2x2 system of rows K and K + Stride
PCRPair(S, K, Stride) ==
    LET Det == RSub(RMul(S.D[K], At(S.D, K + Stride)),
                    RMul(At(S.DL, K + Stride), S.DU[K]))
        Xk == S.X[K]
        Xkps == At(S.X, K + Stride)
    IN  [lo |-> RDiv(RSub(RMul(At(S.D, K + Stride), Xk), RMul(S.DU[K], Xkps)), Det),
         hi |-> RDiv(RAdd(RMul(RNeg(At(S.DL, K + Stride)), Xk), RMul(S.D[K], Xkps)),
                     Det)]

StorePair(S, K, Stride, p) ==
    [S EXCEPT !.X = [k \in Rows |->
        IF k = K + Stride THEN p.hi ELSE IF k = K THEN p.lo ELSE S.X[k]]]

\* the X entries unit K reads and writes in the final step, lines 162-176
\* and 375-399
FinalAccess(K, Stride) ==
    IF HasPartner(K, Stride)
    THEN IF LowerOfPair(K) THEN {<<K, K>>, <<K, K + Stride>>} ELSE {}
    ELSE {<<K, K>>}

\* lines 162-176
PCRFinalScratch(S, K, Stride) ==
    IF HasPartner(K, Stride)
    THEN IF LowerOfPair(K)
         THEN StorePair(S, K, Stride, PCRPair(S, K, Stride))
         ELSE S
    ELSE [S EXCEPT !.X[K] = RDiv(S.X[K], S.D[K])]

\* lines 160-176
PCRFinal(K) ==
    /\ family = "tri"
    /\ pc[K] = "final"
    /\ \E Stride \in ShiftLeft1(NLevels - 1) :
         /\ strideUsed' = [strideUsed EXCEPT ![K] = Stride]
         /\ Scratch' = PCRFinalScratch(Scratch, K, Stride)
         /\ finalR' = finalR \cup FinalAccess(K, Stride)
         /\ finalW' = finalW \cup FinalAccess(K, Stride)
    /\ pc' = [pc EXCEPT ![K] = "bar_final"]
    /\ UNCHANGED <<inputs, X, thomasVars, Lev, New, nbar, snap, levels>>

\* lines 210-212
PCRWriteBack(K) ==
    /\ family = "tri"
    /\ pc[K] = "writeback"
    /\ X' = IF InBatch(League, NBatch) THEN [X EXCEPT ![League][K] = Scratch.X[K]] ELSE X
    /\ pc' = [pc EXCEPT ![K] = "done"]
    /\ UNCHANGED <<inputs, thomasVars, Lev, New, Scratch, nbar, snap, levels,
                   strideUsed, finalW, finalR>>

\* PCRDiffusionSolver::solve(Member, G, H, X), lines 413-415
PCRDiffStage(K) ==
    /\ family = "diff"
    /\ pc[K] = "stage"
    /\ Scratch' = [Scratch EXCEPT !.G[K] = G[League][K], !.H[K] = H[League][K],
                                  !.X[K] = X[League][K]]
    /\ pc' = [pc EXCEPT ![K] = "bar_stage"]
    /\ UNCHANGED <<inputs, X, thomasVars, Lev, New, nbar, snap, levels,
                   strideUsed, finalW, finalR>>

\* Kms < 0 ? 0 : Scratch.G(Kms, 0), lines 344, 348, 378, 397
GBelow(S, k) == IF k < 0 THEN Zero ELSE S.G[k]

\* lines 340-362: what unit K computes from scratch S at level lev
PCRDiffReduce(S, K, lev) ==
    LET Stride == Pow2(lev)
        HalfStride == Pow2(lev - 1)
        Gkmh == GBelow(S, K - HalfStride)
        Kmh == ClampLow(K - HalfStride)
        Gkms == GBelow(S, K - Stride)
        Kph == ClampHigh(K + HalfStride)
        Alpha == RDiv(Gkmh, RAdd(RAdd(S.H[Kmh], Gkms), Gkmh))
        Beta == RDiv(S.G[K], RAdd(RAdd(S.H[Kph], S.G[K]), S.G[Kph]))
    IN  [NewInit EXCEPT
           !.G = RMul(S.G[Kph], Beta),
           !.X = RAdd(RAdd(S.X[K], RMul(Alpha, S.X[Kmh])), RMul(Beta, S.X[Kph])),
           !.H = RAdd(RAdd(S.H[K], RMul(Alpha, S.H[Kmh])), RMul(Beta, S.H[Kph])),
           !.Alpha = Alpha,
           !.Beta = Beta]

PCRDiffRead(K) ==
    /\ family = "diff"
    /\ pc[K] = "read"
    /\ New' = [New EXCEPT ![K] = PCRDiffReduce(Scratch, K, Lev[K])]
    /\ pc' = [pc EXCEPT ![K] = PcAfterRead(K)]
    /\ UNCHANGED <<inputs, X, thomasVars, Lev, Scratch, nbar, snap, levels,
                   strideUsed, finalW, finalR>>

\* lines 366-368
PCRDiffWrite(K) ==
    /\ family = "diff"
    /\ pc[K] = "write"
    /\ Scratch' = [Scratch EXCEPT !.H[K] = New[K].H, !.G[K] = New[K].G,
                                  !.X[K] = New[K].X]
    /\ levels' = [levels EXCEPT ![K] = @ + 1]
    /\ pc' = [pc EXCEPT ![K] = PcAfterWrite(K)]
    /\ UNCHANGED <<inputs, X, thomasVars, Lev, New, nbar, snap, strideUsed,
                   finalW, finalR>>

\* lines 377-392
PCRDiffPair(S, K, Stride) ==
    LET Gkms == GBelow(S, K - Stride)
        Dk == RAdd(RAdd(S.H[K], Gkms), S.G[K])
        Dkps == RAdd(RAdd(At(S.H, K + Stride), S.G[K]), At(S.G, K + Stride))
        DUk == RNeg(S.G[K])
        DLkps == RNeg(S.G[K])
        Det == RSub(RMul(Dk, Dkps), RMul(DLkps, DUk))
        Xk == S.X[K]
        Xkps == At(S.X, K + Stride)
    IN  [lo |-> RDiv(RSub(RMul(Dkps, Xk), RMul(DUk, Xkps)), Det),
         hi |-> RDiv(RAdd(RMul(RNeg(DLkps), Xk), RMul(Dk, Xkps)), Det)]

\* lines 396-398
PCRDiffSingle(S, K, Stride) ==
    RDiv(S.X[K], RAdd(RAdd(S.H[K], GBelow(S, K - Stride)), S.G[K]))

\* lines 375-399
PCRDiffFinalScratch(S, K, Stride) ==
    IF HasPartner(K, Stride)
    THEN IF LowerOfPair(K)
         THEN StorePair(S, K, Stride, PCRDiffPair(S, K, Stride))
         ELSE S
    ELSE [S EXCEPT !.X[K] = PCRDiffSingle(S, K, Stride)]

\* lines 373-399
PCRDiffFinal(K) ==
    /\ family = "diff"
    /\ pc[K] = "final"
    /\ \E Stride \in ShiftLeft1(NLevels - 1) :
         /\ strideUsed' = [strideUsed EXCEPT ![K] = Stride]
         /\ Scratch' = PCRDiffFinalScratch(Scratch, K, Stride)
         /\ finalR' = finalR \cup FinalAccess(K, Stride)
         /\ finalW' = finalW \cup FinalAccess(K, Stride)
    /\ pc' = [pc EXCEPT ![K] = "bar_final"]
    /\ UNCHANGED <<inputs, X, thomasVars, Lev, New, nbar, snap, levels>>

\* line 423
PCRDiffWriteBack(K) ==
    /\ family = "diff"
    /\ pc[K] = "writeback"
    /\ X' = [X EXCEPT ![League][K] = Scratch.X[K]]
    /\ pc' = [pc EXCEPT ![K] = "done"]
    /\ UNCHANGED <<inputs, thomasVars, Lev, New, Scratch, nbar, snap, levels,
                   strideUsed, finalW, finalR>>

InitPCR ==
    /\ InitInputs({1}, {1}, BumpS, BumpD)
    /\ ThomasIdle
    /\ pc = [K \in Units |-> "stage"]
    /\ Lev = [K \in Units |-> 0]
    /\ New = [K \in Units |-> NewInit]
    /\ Scratch = ScratchInit
    /\ nbar = [K \in Units |-> 0]
    /\ snap = ScratchInit
    /\ levels = [K \in Units |-> 0]
    /\ strideUsed = [K \in Units |-> -1]
    /\ finalW = {}
    /\ finalR = {}

NextPCR ==
    \/ TeamBarrier
    \/ \E K \in Units : PCRStage(K)
    \/ \E K \in Units : PCRRead(K)
    \/ \E K \in Units : PCRWrite(K)
    \/ \E K \in Units : PCRFinal(K)
    \/ \E K \in Units : PCRWriteBack(K)
    \/ \E K \in Units : PCRDiffStage(K)
    \/ \E K \in Units : PCRDiffRead(K)
    \/ \E K \in Units : PCRDiffWrite(K)
    \/ \E K \in Units : PCRDiffFinal(K)
    \/ \E K \in Units : PCRDiffWriteBack(K)

\* Every unit is a running hardware thread: an enabled step is eventually taken.
SpecPCR == InitPCR /\ [][NextPCR]_vars /\ WF_vars(NextPCR)

AllDone == \A K \in Units : pc[K] = "done"

----------------------------------------------------------------------------
(* What the other backend returns for the same batch *)

\* lane iv of a scratch as a row vector
LaneX(S, iv) == [K \in Rows |-> S.X[K][iv]]

\* what ThomasSolver::solve leaves in X(I, .) for the batch (dl, d, du, X0)
ThomasXOf(I, dl, d, du) ==
    LaneX(ThomasSolveScratch(
              ThomasStage(I \div VecLength, NBatch, VecLength, dl, d, du, X0)),
          I - IStartOf(I \div VecLength, VecLength))

ThomasX(I) == ThomasXOf(I, DL, D, DU)

\* what ThomasDiffusionSolver::solve leaves in X(I, .) for the batch (G, H, X0)
ThomasDiffX(I) ==
    LaneX(ThomasDiffSolveScratch(
              ThomasDiffStage(I \div VecLength, NBatch, VecLength, G, H, X0)),
          I - IStartOf(I \div VecLength, VecLength))

----------------------------------------------------------------------------
(* Notions the properties are stated in, defined apart from the solvers *)

\* ceil(log2(M)): the least L with 2^L >= M
CeilLogTwo(M) == CHOOSE L \in 0 .. M : Pow2(L) >= M /\ \A l \in 0 .. L - 1 : Pow2(l) < M

\* the reduction levels 1 .. L-1 of a system of M rows: how many there are
LevelCount(M) == IF CeilLogTwo(M) >= 1 THEN CeilLogTwo(M) - 1 ELSE 0

\* stride 2^(L-1) of the final pairing
FinalStride(M) == Pow2(CeilLogTwo(M) - 1)

NoNaNIn(x) == \A K \in DOMAIN x : ~IsNaN(x[K])

AllTeamsDone == teamsDone = 0 .. NTeams - 1

\* the batch that holds system I alone
Alone(A, I) == [i \in {0} |-> A[I]]

\* system I solved alone by the solver of its family: a batch of one, one lane
AloneX(I) ==
    IF family = "tri"
    THEN LaneX(ThomasSolveScratch(
                   ThomasStage(0, 1, 1, Alone(DL, I), Alone(D, I), Alone(DU, I),
                               Alone(X0, I))), 0)
    ELSE LaneX(ThomasDiffSolveScratch(
                   ThomasDiffStage(0, 1, 1, Alone(G, I), Alone(H, I), Alone(X0, I))),
               0)

\* the diffusion batch (G, H) as explicit diagonals: row K is coupled by
\* G[K-1] to row K-1 (K >= 1) and by G[K] to row K+1 (K <= NRow-2)
ToSub(g) ==
    [I \in DOMAIN g |-> [K \in Rows |-> IF K >= 1 THEN RNeg(g[I][K - 1]) ELSE Zero]]

ToSuper(g) == [I \in DOMAIN g |-> [K \in Rows |-> RNeg(g[I][K])]]

ToDiag(g, h) ==
    [I \in DOMAIN g |-> [K \in Rows |->
        RAdd(RAdd(h[I][K], IF K >= 1 THEN g[I][K - 1] ELSE Zero),
             IF K <= NRow - 2 THEN g[I][K] ELSE Zero)]]

\* the direct solution of a 2x2 system
Direct2x2(sub, diag, super, rhs) ==
    LET det == RSub(RMul(diag[0], diag[1]), RMul(sub[1], super[0]))
    IN  [K \in 0 .. 1 |->
           IF K = 0
           THEN RDiv(RSub(RMul(diag[1], rhs[0]), RMul(super[0], rhs[1])), det)
           ELSE RDiv(RAdd(RMul(RNeg(sub[1]), rhs[0]), RMul(diag[0], rhs[1])), det)]

\* how far unit K has come: staging, then per level read / barrier / write /
\* barrier, then the final step, a barrier and the write-back
Pos(K) ==
    CASE pc[K] = "stage"     -> 0
      [] pc[K] = "bar_stage" -> 1
      [] pc[K] = "read"      -> 4 * Lev[K] - 2
      [] pc[K] = "bar_read"  -> 4 * Lev[K] - 1
      [] pc[K] = "write"     -> 4 * Lev[K]
      [] pc[K] = "bar_write" -> 4 * Lev[K] + 1
      [] pc[K] = "final"     -> 4 * LevelCount(NRow) + 2
      [] pc[K] = "bar_final" -> 4 * LevelCount(NRow) + 3
      [] pc[K] = "writeback" -> 4 * LevelCount(NRow) + 4
      [] pc[K] = "done"      -> 4 * LevelCount(NRow) + 5

ReadsDone(K, lev) == Pos(K) >= 4 * lev - 1

AtWrites(K, lev) == Pos(K) >= 4 * lev

WritesDone(K, lev) == Pos(K) >= 4 * lev + 1

PastLevel(K, lev) == Pos(K) >= 4 * lev + 2

ReduceOf(S, K, lev) ==
    IF family = "tri" THEN PCRReduce(S, K, lev) ELSE PCRDiffReduce(S, K, lev)

FinalOver == \A K \in Units : pc[K] \in {"bar_final", "writeback", "done"}

\* the update of row K at level lev from the neighbours it has: the terms of
\* a neighbour K - half < 0 or K + half >= NRow left out
InRangeReduce(S, K, lev) ==
    LET half == Pow2(lev - 1)
        lowIn == K - half >= 0
        highIn == K + half < NRow
        alpha == IF lowIn THEN RDiv(RNeg(S.DL[K]), S.D[K - half]) ELSE Zero
        gamma == IF highIn THEN RDiv(RNeg(S.DU[K]), S.D[K + half]) ELSE Zero
        lowD == IF lowIn THEN RMul(alpha, S.DU[K - half]) ELSE Zero
        highD == IF highIn THEN RMul(gamma, S.DL[K + half]) ELSE Zero
        lowX == IF lowIn THEN RMul(alpha, S.X[K - half]) ELSE Zero
        highX == IF highIn THEN RMul(gamma, S.X[K + half]) ELSE Zero
    IN  [D  |-> RAdd(RAdd(S.D[K], lowD), highD),
         X  |-> RAdd(RAdd(S.X[K], lowX), highX),
         DL |-> IF lowIn THEN RMul(alpha, S.DL[K - half]) ELSE Zero,
         DU |-> IF highIn THEN RMul(gamma, S.DU[K + half]) ELSE Zero]

\* the unit that finalises row r: the lower row of its pair, or r itself
OwnerOf(r) ==
    IF r + FinalStride(NRow) < NRow THEN r
    ELSE IF r - FinalStride(NRow) >= 0 THEN r - FinalStride(NRow)
    ELSE r

----------------------------------------------------------------------------
(* Properties *)

\* C1: round trip of the general solvers.  For every row count M >= 1 and
\* every system with sub[0] = 0, super[M-1] = 0 and non-zero pivots whose
\* right-hand side is A*x, ThomasSolver::solve and PCRSolver::solve both leave
\* x in the right-hand side.
C1_RoundTrip ==
    (/\ family = "tri"
     /\ AllDone
     /\ DL[League][0] = Zero
     /\ DU[League][NRow - 1] = Zero
     /\ \A K \in Rows : D[League][K] # Zero)
    => /\ ThomasX(League) = XTrue[League]
       /\ X[League] = XTrue[League]

\* The round trip from two rows on, and the 4-row scenario of the
\* specification: sub = [0,1,1,1], diag = [4,4,4,4], super = [1,1,1,0],
\* rhs = [5,6,6,5] solves to [1,1,1,1] under both solvers.
RoundTripFromTwoRows ==
    (/\ family = "tri"
     /\ AllDone
     /\ NRow >= 2
     /\ DL[League][0] = Zero
     /\ DU[League][NRow - 1] = Zero)
    => /\ ThomasX(League) = XTrue[League]
       /\ X[League] = XTrue[League]

FourRowScenario ==
    /\ family = "tri"
    /\ AllDone
    /\ NRow = 4
    /\ DL[League] = [K \in Rows |-> Real(IF K = 0 THEN 0 ELSE 1)]
    /\ D[League] = [K \in Rows |-> Real(4)]
    /\ DU[League] = [K \in Rows |-> Real(IF K = 3 THEN 0 ELSE 1)]
    /\ X0[League] = [K \in Rows |-> Real(IF K \in {0, 3} THEN 5 ELSE 6)]
    /\ X[League] = [K \in Rows |-> One]
    /\ ThomasX(League) = [K \in Rows |-> One]

\* C2: two-barrier discipline of the cyclic-reduction solvers.  For every
\* level, no unit is at or past its scratch writes of the level before every
\* unit has finished its reads of the level, and no unit is past the level
\* (reading for the next level or for the final step) before every unit has
\* finished its writes of the level; what a unit reads for a level is the
\* scratch as it stood when the level began.
C2_TwoBarrier ==
    /\ \A lev \in 1 .. LevelCount(NRow) : \A u \in Units, v \in Units :
          /\ AtWrites(u, lev) => ReadsDone(v, lev)
          /\ PastLevel(u, lev) => WritesDone(v, lev)
    /\ \A K \in Units :
          /\ pc[K] = "read" => Scratch = snap
          /\ pc[K] \in {"bar_read", "write"} => New[K] = ReduceOf(snap, K, Lev[K])
          /\ pc[K] = "final" =>
                /\ Scratch.D = snap.D /\ Scratch.DL = snap.DL /\ Scratch.DU = snap.DU
                /\ Scratch.G = snap.G /\ Scratch.H = snap.H

C2_Witness ==
    \E u \in Units, v \in Units :
        /\ pc[u] = "write"
        /\ pc[v] = "bar_write"
        /\ Scratch # snap

\* C3: backend agreement.  For any batch with M >= 1 and non-zero pivots,
\* PCRSolver::solve leaves in the right-hand side what ThomasSolver::solve
\* leaves, and PCRDiffusionSolver::solve what ThomasDiffusionSolver::solve
\* leaves.
C3_BackendAgreement ==
    AllDone =>
        IF family = "tri"
        THEN NoNaNIn(ThomasX(League)) => X[League] = ThomasX(League)
        ELSE NoNaNIn(ThomasDiffX(League)) => X[League] = ThomasDiffX(League)

\* The backends agree from two rows on when the entries outside the matrix
\* are zero: sub[0] = 0 and super[M-1] = 0, respectively G[M-1] = 0.
BackendAgreementInside ==
    (AllDone /\ NRow >= 2) =>
        IF family = "tri"
        THEN (DL[League][0] = Zero /\ DU[League][NRow - 1] = Zero)
                 => X[League] = ThomasX(League)
        ELSE G[League][NRow - 1] = Zero => X[League] = ThomasDiffX(League)

\* C4: diffusion/general agreement.  For a diffusion batch (G, H, rhs) with
\* M >= 2, the diffusion solver leaves in the right-hand side what the general
\* solver of the same backend leaves for the explicit diagonals
\* diag[k] = H[k] + G[k-1] (k >= 1) + G[k] (k <= M-2), sub[k] = -G[k-1],
\* super[k] = -G[k].
C4_DiffusionAsGeneral ==
    (family = "diff" /\ NRow >= 2) =>
        \A I \in Systems :
            (I \div VecLength) \in teamsDone =>
                X[I] = ThomasXOf(I, ToSub(G), ToDiag(G, H), ToSuper(G))

\* The two agree when the last coupling G[M-1] is zero.
DiffusionAsGeneralInside ==
    (family = "diff" /\ NRow >= 2) =>
        \A I \in Systems :
            ((I \div VecLength) \in teamsDone /\ G[I][NRow - 1] = Zero) =>
                X[I] = ThomasXOf(I, ToSub(G), ToDiag(G, H), ToSuper(G))

\* C5: row count 1.  For M = 1 and diag[0] # 0 the solver of either backend
\* overwrites rhs[0] with rhs[0] / diag[0].
C5_RowCountOne ==
    (family = "tri" /\ NRow = 1 /\ AllDone /\ D[League][0] # Zero) =>
        /\ ThomasX(League)[0] = RDiv(X0[League][0], D[League][0])
        /\ X[League][0] = RDiv(X0[League][0], D[League][0])

\* C6: padding invariance of the lane-parallel solvers.  For every batch size
\* and lane width, a returned call has left in X(I, .) of each of its real
\* systems the solution of system I solved alone, and has left the other
\* systems alone; the padding lanes were staged as diagonal 1, off-diagonals /
\* coupling 0, right-hand side 0 and divide by nothing that is zero; no
\* X(I, .) with I >= NBatch is read or written.
C6_PaddingInvariance ==
    /\ touched \subseteq Systems
    /\ DOMAIN X = Systems
    /\ \A I \in Systems :
          IF (I \div VecLength) \in teamsDone
          THEN X[I] = AloneX(I)
          ELSE X[I] = X0[I]
    /\ \A r \in teamsDone : \A iv \in Lanes : \A K \in Rows :
          r * VecLength + iv >= NBatch =>
             /\ staged[r].X[K][iv] = Zero
             /\ ~IsNaN(solved[r].X[K][iv])
             /\ IF family = "tri"
                THEN /\ staged[r].DL[K][iv] = Zero
                     /\ staged[r].D[K][iv] = One
                     /\ staged[r].DU[K][iv] = Zero
                     /\ ~IsNaN(solved[r].D[K][iv])
                ELSE /\ staged[r].G[K][iv] = Zero
                     /\ staged[r].H[K][iv] = One
                     /\ ~IsNaN(solved[r].H[K][iv])
                     /\ ~IsNaN(solved[r].Alpha[K][iv])

C6_Witness ==
    /\ AllTeamsDone
    /\ NBatch % VecLength # 0
    /\ NTeams >= 2
    /\ NRow >= 2
    /\ \A I \in Systems : X[I] # X0[I]

\* C7: every call runs to completion.  The units of a group arrive at the same
\* barriers in the same order whatever their row (one after staging, two per
\* reduction level, one before the write-back), and every unit eventually
\* finishes and has written back its row.
BarriersAligned ==
    /\ \A j \in Units, k \in Units :
          (AtBarrier(j) /\ AtBarrier(k)) =>
              pc[j] = pc[k] /\ Lev[j] = Lev[k] /\ nbar[j] = nbar[k]
    /\ \A K \in Units :
          pc[K] = "done" => nbar[K] = 2 + 2 * LevelCount(NRow)

C7_RunsToCompletion == []BarriersAligned /\ <>AllDone

C7_Witness ==
    /\ AllDone
    /\ NRow = 5
    /\ \A K \in Units : nbar[K] = 6

\* C8 as stated: for M rows the cyclic-reduction solver performs exactly
\* ceil(log2(M)) - 1 reduction levels and then pairs rows at stride 2^(L-1);
\* for M = 2 it performs none and writes the direct solution of the 2x2 system.
C8_LevelsAsStated ==
    AllDone =>
        /\ \A K \in Units :
              /\ levels[K] = CeilLogTwo(NRow) - 1
              /\ 2 * strideUsed[K] = Pow2(CeilLogTwo(NRow))
        /\ (family = "tri" /\ NRow = 2) =>
              X[League] = Direct2x2(DL[League], D[League], DU[League], X0[League])

\* C8, amended: the solver performs exactly max(0, ceil(log2(M)) - 1)
\* reduction levels; for M >= 2 it then pairs rows at stride 2^(L-1); for
\* M = 2 it performs none and writes the direct solution of the 2x2 system.
C8_Levels ==
    AllDone =>
        /\ \A K \in Units :
              /\ levels[K] = LevelCount(NRow)
              /\ NRow >= 2 => strideUsed[K] = FinalStride(NRow)
        /\ (family = "tri" /\ NRow = 2) =>
              /\ \A K \in Units : levels[K] = 0
              /\ X[League] = Direct2x2(DL[League], D[League], DU[League], X0[League])

C8_Witness ==
    /\ AllDone
    /\ NRow = 5
    /\ \A K \in Units : levels[K] = 2 /\ strideUsed[K] = 4
    /\ X[League] # X0[League]

\* C9: out-of-range couplings in the diffusion cyclic reduction.  At every
\* level and for every row k, Alpha = 0 whenever k - half < 0 and Beta = 0
\* whenever k + half >= M, for every input G.
C9_OutOfRangeCouplings ==
    \A K \in Units :
        (family = "diff" /\ pc[K] = "bar_read") =>
            /\ K - Pow2(Lev[K] - 1) < 0 => New[K].Alpha = Zero
            /\ K + Pow2(Lev[K] - 1) >= NRow => New[K].Beta = Zero

\* Both weights vanish out of range when the last coupling G[M-1] is zero.
OutOfRangeCouplingsInside ==
    \A K \in Units :
        (family = "diff" /\ pc[K] = "bar_read" /\ G[League][NRow - 1] = Zero) =>
            /\ K - Pow2(Lev[K] - 1) < 0 => New[K].Alpha = Zero
            /\ K + Pow2(Lev[K] - 1) >= NRow => New[K].Beta = Zero

\* C10: the final step finalises every row exactly once.  For M >= 2 no unit
\* writes an X entry another unit reads or writes in the final step; once the
\* step is over every row has been written by exactly one unit: a row with a
\* partner at the final stride by the unit of the lower row of its pair (which
\* is below M/2), a row without a partner by its own unit.
C10_FinalStepOnce ==
    NRow >= 2 =>
        /\ \A a \in finalW : \A b \in finalW \cup finalR :
              a[1] # b[1] => a[2] # b[2]
        /\ \A a \in finalW : a[1] \in Units /\ a[2] \in Rows /\ a[1] = OwnerOf(a[2])
        /\ FinalOver =>
              \A r \in Rows :
                 /\ {a \in finalW : a[2] = r} = {<<OwnerOf(r), r>>}
                 /\ OwnerOf(r) # r => OwnerOf(r) < NRow \div 2
                 /\ r + FinalStride(NRow) < NRow => r < NRow \div 2

C10_Witness ==
    /\ FinalOver
    /\ NRow = 3
    /\ finalW = {<<0, 0>>, <<0, 2>>, <<1, 1>>}

\* C11: clamped neighbour reads are inert in PCRSolver::solve.  For M >= 2 and
\* a staged system with sub[0] = 0 and super[M-1] = 0: a row k that has been
\* written for lev levels (lev = 0: staged) holds DL(k) = 0 if k < 2^lev and
\* DU(k) = 0 if k >= M - 2^lev; and what a unit has computed at a level has
\* alpha = 0 if k - half was clamped, gamma = 0 if k + half was clamped, and
\* is the update from the neighbours inside 0 .. M-1 alone.
C11_ClampedReadsInert ==
    (/\ family = "tri"
     /\ NRow >= 2
     /\ DL[League][0] = Zero
     /\ DU[League][NRow - 1] = Zero)
    => \A K \in Units :
          /\ pc[K] # "stage" =>
                /\ K < Pow2(levels[K]) => Scratch.DL[K] = Zero
                /\ K >= NRow - Pow2(levels[K]) => Scratch.DU[K] = Zero
          /\ pc[K] \in {"bar_read", "write"} =>
                /\ K - Pow2(Lev[K] - 1) < 0 => New[K].Alpha = Zero
                /\ K + Pow2(Lev[K] - 1) >= NRow => New[K].Beta = Zero
                /\ New[K].D = InRangeReduce(snap, K, Lev[K]).D
                /\ New[K].X = InRangeReduce(snap, K, Lev[K]).X
                /\ New[K].DL = InRangeReduce(snap, K, Lev[K]).DL
                /\ New[K].DU = InRangeReduce(snap, K, Lev[K]).DU

\* a 5-row system after its second level: row 1 was clamped below at that
\* level, row 3 above, and rows 1 and 3 still held non-zero DU and DL
C11_Witness ==
    /\ family = "tri"
    /\ NRow = 5
    /\ DL[League][0] = Zero
    /\ DU[League][NRow - 1] = Zero
    /\ \A K \in Units : pc[K] = "bar_write" /\ Lev[K] = 2 /\ levels[K] = 2
    /\ snap.DU[1] # Zero
    /\ snap.DL[3] # Zero
    /\ Scratch.DL[3] = Zero
    /\ Scratch.DU[1] = Zero

====
